---- MODULE Spec2Model ----
\* Model of src/background/routability/NonRoutableService.ts: the correlator of
\* webRequest errors with non-routable reports, the non-routable list and its
\* throttled flush to storage.
EXTENDS Integers, Sequences, FiniteSets, TLC

\* ---------------------------------------------------------------- bounds
MaxEvents == 3         \* Spec: events the two handlers act on
MaxAdds == 1           \* Spec: direct addHostname calls that append
MaxEventsFull == 2     \* SpecFull: events the two handlers act on
MaxAddsFull == 2       \* SpecFull: direct addHostname calls that append
TickMs == 500          \* granularity of Date.now()
MaxElapsed == 1500     \* the clock stops after this many ms
TimeOrigin == 10000    \* Date.now() when the service is constructed
MaxInflight == 2       \* storage.set calls awaiting completion
MaxEventsFaults == 1   \* SpecFaults: events the two handlers act on
MaxAddsFaults == 2     \* SpecFaults: direct addHostname calls that append
MaxFails == 1          \* SpecFaults: storage.set calls that reject
MaxEventsInputs == 1   \* SpecInputs: events the two handlers act on
MaxAddsInputs == 1     \* SpecInputs: direct addHostname calls that append
MaxNoops == 1          \* SpecInputs: handler calls that return before acting
MaxPopupCalls == 2     \* SpecPopup: calls of getPopupData
MaxEventsLive == 2     \* SpecLive: events the two handlers act on
MaxAddsLive == 2       \* SpecLive: direct addHostname calls that append
MaxAddsClassifier == 1 \* SpecClassifier: direct addHostname calls that append
MaxQueries == 1        \* SpecClassifier: calls of isUrlRoutable

\* ------------------------------------------------------ program constants
NON_ROUTABLE_MAX_LENGTH == 1000
CLEAR_CAPACITY == 50
STORAGE_UPDATE_TIMEOUT_MS == 1000
VALUE_TTL_MS == 1000
STATUS_CODE == 502
MAIN_FRAME == "main_frame"
ERROR == "net::ERR_TUNNEL_CONNECTION_FAILED"

\* ------------------------------------------------------------ data model
\* A hostname is the number of the host: host 3 stands for "h3.test".
\* The event sources talk about the hosts of EventHosts; other callers of
\* addHostname also add host 3.
EventHosts == {1, 2}
Hosts == EventHosts \cup {3}
TabIds == {1, 2}
Null == 0
Undefined == -1

\* Strings handed to getHostname: a URL of a host, the bare domain of a host,
\* the empty string, and text that is no URL.
UrlOf(h) == [kind |-> "url", host |-> h]
DomainOf(h) == [kind |-> "domain", host |-> h]
EmptyString == [kind |-> "empty", host |-> 0]
Garbage == [kind |-> "garbage", host |-> 0]
Urls == {UrlOf(h) : h \in EventHosts} \cup {EmptyString, Garbage}
Reports == {UrlOf(h) : h \in EventHosts} \cup {DomainOf(h) : h \in EventHosts}
             \cup {EmptyString, Garbage}

Falsy(s) == s.kind = "empty"

getHostname(url) ==
    IF url.kind \in {"url", "domain"} THEN url.host ELSE Null

\* The hostname 'localhost', and the hostnames that are IP literals: the
\* literal number i of IpLiterals is the hostname IpBase + i, and ipaddr.parse
\* yields its kind and its parts (four octets, or eight 16-bit groups).
LOCALHOST == 5000
IPV4 == "ipv4"
IPV6 == "ipv6"
IpBase == 6000
IpLiterals ==
    << [kind |-> IPV4, parts |-> <<127, 0, 0, 1>>],
       [kind |-> IPV4, parts |-> <<8, 8, 8, 8>>],
       [kind |-> IPV4, parts |-> <<10, 1, 2, 3>>],
       [kind |-> IPV4, parts |-> <<172, 16, 5, 4>>],
       [kind |-> IPV4, parts |-> <<172, 32, 0, 1>>],
       [kind |-> IPV4, parts |-> <<192, 168, 1, 1>>],
       [kind |-> IPV6, parts |-> <<0, 0, 0, 0, 0, 0, 0, 1>>],
       [kind |-> IPV6, parts |-> <<64512, 0, 0, 0, 0, 0, 0, 1>>] >>
IpHosts == {IpBase + i : i \in 1 .. Len(IpLiterals)}
isIP(hostname) == hostname \in IpHosts
parse(hostname) == IpLiterals[hostname - IpBase]
Ipv6Hosts == {h \in IpHosts : parse(h).kind = IPV6}
Ipv4Hosts == IpHosts \ Ipv6Hosts

\* ipaddr.parseCIDR of the entries of NON_ROUTABLE_CIDR_NETS: the private and
\* loopback IPv4 ranges; a build that configures the loopback range alone; and
\* a configuration that also lists the IPv6 range fc00::/7.
Cidr(kind, parts, bits) == [addr |-> [kind |-> kind, parts |-> parts], bits |-> bits]
NON_ROUTABLE_CIDR_NETS ==
    << Cidr(IPV4, <<10, 0, 0, 0>>, 8), Cidr(IPV4, <<127, 0, 0, 0>>, 8),
       Cidr(IPV4, <<172, 16, 0, 0>>, 12), Cidr(IPV4, <<192, 168, 0, 0>>, 16) >>
LoopbackOnly == << Cidr(IPV4, <<127, 0, 0, 0>>, 8) >>
WithIpv6Range ==
    NON_ROUTABLE_CIDR_NETS \o << Cidr(IPV6, <<64512, 0, 0, 0, 0, 0, 0, 0>>, 7) >>

\* The urls handed to isUrlRoutable.
ClassifierUrls ==
    {UrlOf(h) : h \in Hosts \cup {LOCALHOST} \cup IpHosts}
    \cup {EmptyString, Garbage}

\* What storage holds under NON_ROUTABLE_KEY before the service starts: nothing,
\* or a list one short of the maximum whose oldest entry is host 1.
Filler(n) == [i \in 1 .. n |-> Cardinality(Hosts) + i]
NoValue == [present |-> FALSE, value |-> <<>>]
Value(list) == [present |-> TRUE, value |-> list]
StoredFull == Value(<<1>> \o Filler(NON_ROUTABLE_MAX_LENGTH - 2))

\* ----------------------------------------------------------------- state
VARIABLES
    phase,                    \* "constructed", "loading", "ready", "failed"
    now,                      \* Date.now()
    nonRoutableList,          \* this.nonRoutableList
    webRequestErrorHostnames, \* Map hostname -> {timeAdded, tabId, url}
    nonRoutableHostnames,     \* Map hostname -> {timeAdded}
    lastCallTime,             \* throttle: time of the last updateStorage() call
    lastInvokeTime,           \* throttle: time the wrapped function last ran
    timerId,                  \* throttle: deadline of the pending timer
    lastArgs,                 \* throttle: a call is waiting for the trailing edge
    stored,                   \* value in storage under NON_ROUTABLE_KEY
    inflight,                 \* storage.set calls not yet completed, oldest first
    notified,                 \* notifier.notifyListeners calls per hostname
    tabsUpdated,              \* tabs.update calls per hostname of the url
    lastTabsUpdate,           \* arguments of the last tabs.update call
    committed,                \* addNewNonRoutableDomain calls per hostname
    failures,                 \* qualifying webRequest events per hostname
    reports,                  \* reports with a hostname, per hostname
    evicted,                  \* entries removed from the head of the list
    sweptStale,               \* pending entries a sweep of their mapping found stale
    parsedCIDRList,           \* this.parsedCIDRList
    answer,                   \* the last call of isUrlRoutable and its result
    ignored,                  \* calls each handler returned from before acting
    lost,                     \* hostnames of failed storage.set calls not stored since
    initStatus,               \* GlobalStore.initStatus of the popup
    popup,                    \* where the popup's getPopupData stands, and its data
    budget                    \* events and calls still to be modelled

vars == << phase, now, nonRoutableList, webRequestErrorHostnames,
           nonRoutableHostnames, lastCallTime, lastInvokeTime, timerId,
           lastArgs, stored, inflight, notified, tabsUpdated, lastTabsUpdate,
           committed,
           failures, reports, evicted, sweptStale, parsedCIDRList, answer,
           ignored, lost, initStatus, popup, budget >>

throttleVars == << lastCallTime, lastInvokeTime, timerId, lastArgs >>
mapVars == << webRequestErrorHostnames, nonRoutableHostnames >>
outVars == << notified, tabsUpdated, lastTabsUpdate, committed >>
countVars == << failures, reports, sweptStale >>
fixedVars == << parsedCIDRList, initStatus, popup >>
callVars == << fixedVars, answer, ignored, lost >>
Spend(what) == budget' = [budget EXCEPT ![what] = @ - 1]

\* ---------------------------------------------------------- Map helpers
EmptyMap == [h \in {} |-> 0]
Has(storage, key) == key \in DOMAIN storage
\* Mutant of MapSet: a set that keeps the entry a key already has.
MapSetFirstWins(storage, key, value) ==
    [k \in DOMAIN storage \cup {key} |->
        IF k \in DOMAIN storage THEN storage[k] ELSE value]

\* Mutant of MapSet: a set that stores nothing.
MapSetKeep(storage, key, value) == storage

MapSet(storage, key, value) ==
    [k \in DOMAIN storage \cup {key} |-> IF k = key THEN value ELSE storage[k]]
MapDelete(storage, key) == [k \in DOMAIN storage \ {key} |-> storage[k]]

\* Mutants of getByHostname: a lookup that never finds its key, one that
\* returns whatever entry the storage holds, one that forgets the delete, and
\* one that neither finds nor deletes.
getByHostnameBlind(hostname, storage) ==
    [value |-> <<>>, storage |-> storage]

getByHostnameMiss(hostname, storage) ==
    [value |-> <<>>, storage |-> MapDelete(storage, hostname)]

getByHostnameAny(hostname, storage) ==
    [value |-> IF DOMAIN storage # {}
               THEN <<storage[CHOOSE k \in DOMAIN storage : TRUE]>> ELSE <<>>,
     storage |-> MapDelete(storage, hostname)]

getByHostnameKeep(hostname, storage) ==
    [value |-> IF Has(storage, hostname) THEN <<storage[hostname]>> ELSE <<>>,
     storage |-> storage]

\* getByHostname: the values found (none stands for null) and the storage
\* without the key.
getByHostname(hostname, storage) ==
    [value |-> IF Has(storage, hostname) THEN <<storage[hostname]>> ELSE <<>>,
     storage |-> MapDelete(storage, hostname)]

\* Object.keys of a Map: a Map keeps its entries in internal slots, it has no
\* own enumerable properties.
ObjectKeys(storage) == {}

clearStaleValues(storage, currentTime) ==
    LET stale == {key \in ObjectKeys(storage) :
                     storage[key].timeAdded < currentTime - VALUE_TTL_MS}
    IN  [k \in DOMAIN storage \ stale |-> storage[k]]

\* The entries of the mapping called name that are older than the TTL when
\* clearStaleValues has run on it at currentTime, with the entries of the other
\* mapping recorded earlier, less the one of the hostname just looked up.
Swept(name, storage, currentTime, hostname) ==
    {p \in sweptStale : p[1] # name /\ p[2] # hostname}
    \cup {<<name, k>> : k \in {key \in DOMAIN storage :
              storage[key].timeAdded < currentTime - VALUE_TTL_MS}}

\* ------------------------------------------------------------ list store
\* Mutant of Includes: the membership test that never finds the hostname.
IncludesNever(list, hostname) == FALSE

\* Array.prototype.includes
Includes(list, hostname) == \E i \in 1 .. Len(list) : list[i] = hostname

\* Mutant of Slice: a slice that keeps the first entry and drops the n after it.
SliceKeepFirst(list, n) ==
    IF n >= Len(list) THEN <<>>
    ELSE <<list[1]>> \o SubSeq(list, n + 2, Len(list))

Slice(list, n) ==
    IF n >= Len(list) THEN <<>> ELSE SubSeq(list, n + 1, Len(list))

\* Mutant of Evict: drops only the oldest entry.
EvictOne(list) ==
    IF Len(list) > NON_ROUTABLE_MAX_LENGTH THEN Slice(list, 1) ELSE list

\* the while loop of updateStorage
RECURSIVE Evict(_)
Evict(list) ==
    IF Len(list) > NON_ROUTABLE_MAX_LENGTH
    THEN Evict(Slice(list, CLEAR_CAPACITY))
    ELSE list

\* lodash throttle(func, wait) = debounce(func, wait, {leading, trailing, maxWait: wait})
shouldInvoke(time) ==
    \/ lastCallTime = Undefined
    \/ time - lastCallTime >= STORAGE_UPDATE_TIMEOUT_MS
    \/ time - lastCallTime < 0
    \/ time - lastInvokeTime >= STORAGE_UPDATE_TIMEOUT_MS

Min(a, b) == IF a < b THEN a ELSE b

remainingWait(time) ==
    Min(STORAGE_UPDATE_TIMEOUT_MS - (time - lastCallTime),
        STORAGE_UPDATE_TIMEOUT_MS - (time - lastInvokeTime))

\* The body of updateStorage up to its await: evict, then hand the list to
\* storage.set.
Flush(list) ==
    LET kept == Evict(list) IN
    /\ Len(inflight) < MaxInflight
    /\ nonRoutableList' = kept
    /\ evicted' = evicted + (Len(list) - Len(kept))
    /\ inflight' = Append(inflight, kept)

\* updateStorage(): one call of the throttled function, with the list as it
\* is at the call.
CallUpdateStorage(list) ==
    /\ lastCallTime' = now
    /\ IF shouldInvoke(now)
       THEN /\ timerId' = now + STORAGE_UPDATE_TIMEOUT_MS
            /\ lastArgs' = FALSE
            /\ lastInvokeTime' = now
            /\ Flush(list)
       ELSE /\ lastArgs' = TRUE
            /\ timerId' = IF timerId = Undefined
                          THEN now + STORAGE_UPDATE_TIMEOUT_MS ELSE timerId
            /\ nonRoutableList' = list
            /\ UNCHANGED << lastInvokeTime, evicted, inflight >>

\* Mutant of addHostname: schedules the flush and leaves the push to it.
addHostnameNoPush(hostname) ==
    IF Includes(nonRoutableList, hostname)
    THEN UNCHANGED << nonRoutableList, throttleVars, evicted, inflight >>
    ELSE CallUpdateStorage(nonRoutableList)

\* addHostname(hostname)
addHostname(hostname) ==
    IF Includes(nonRoutableList, hostname)
    THEN UNCHANGED << nonRoutableList, throttleVars, evicted, inflight >>
    ELSE CallUpdateStorage(Append(nonRoutableList, hostname))

\* Mutant of tabsUpdate: the retry is issued twice.
tabsUpdateTwice(tabId, url) ==
    /\ tabsUpdated' = [tabsUpdated EXCEPT ![getHostname(url)] = @ + 2]
    /\ lastTabsUpdate' = << [tabId |-> tabId, url |-> url] >>

\* tabs.update(tabId, url)
tabsUpdate(tabId, url) ==
    /\ tabsUpdated' = [tabsUpdated EXCEPT ![getHostname(url)] = @ + 1]
    /\ lastTabsUpdate' = << [tabId |-> tabId, url |-> url] >>

\* addNewNonRoutableDomain(hostname)
addNewNonRoutableDomain(hostname) ==
    /\ addHostname(hostname)
    /\ notified' = [notified EXCEPT ![hostname] = @ + 1]
    /\ committed' = [committed EXCEPT ![hostname] = @ + 1]

\* ------------------------------------------------------------ classifier
\* 2^n, and the right shift of a part
RECURSIVE Pow2(_)
Pow2(n) == IF n = 0 THEN 1 ELSE 2 * Pow2(n - 1)
ShiftRight(x, n) == x \div Pow2(n)

\* ipaddr.js matchCIDR(first, second, partSize, cidrBits): compares the parts
\* from the part numbered part on, cidrBits bits in all.
RECURSIVE matchCIDR(_, _, _, _, _)
matchCIDR(first, second, partSize, cidrBits, part) ==
    IF cidrBits <= 0
    THEN TRUE
    ELSE LET shift == IF partSize - cidrBits < 0 THEN 0
                      ELSE partSize - cidrBits
         IN  IF ShiftRight(first[part], shift) # ShiftRight(second[part], shift)
             THEN FALSE
             ELSE matchCIDR(first, second, partSize, cidrBits - partSize,
                            part + 1)

\* What a call yields: a returned value or an exception.
Returns(value) == [threw |-> FALSE, value |-> value]
Throws == [threw |-> TRUE, value |-> FALSE]

\* addr.match(parsedCIDR) of ipaddr.js: throws when the range is of the other
\* address family.
match(addr, parsedCIDR) ==
    IF parsedCIDR.addr.kind # addr.kind
    THEN Throws
    ELSE Returns(matchCIDR(addr.parts, parsedCIDR.addr.parts,
                           IF addr.kind = IPV4 THEN 8 ELSE 16,
                           parsedCIDR.bits, 1))

\* this.parsedCIDRList.some(parsedCIDR => addr.match(parsedCIDR)), from the
\* range numbered i on
RECURSIVE some(_, _, _)
some(list, addr, i) ==
    IF i > Len(list)
    THEN Returns(FALSE)
    ELSE LET m == match(addr, list[i])
         IN  IF m = Returns(FALSE) THEN some(list, addr, i + 1) ELSE m

\* Mutants of isUrlRoutable: one that tests the address before the list and
\* 'localhost', and one without the early return for IPv6 literals.
isUrlRoutableAddressFirst(url) ==
    LET hostname == getHostname(url) IN
    IF hostname = Null THEN Returns(TRUE)
    ELSE IF ~isIP(hostname) THEN Returns(TRUE)
    ELSE IF hostname = LOCALHOST \/ Includes(nonRoutableList, hostname)
         THEN Returns(FALSE)
    ELSE IF parse(hostname).kind = IPV6 THEN Returns(TRUE)
    ELSE LET found == some(parsedCIDRList, parse(hostname), 1)
         IN  IF found.threw THEN Throws ELSE Returns(~found.value)

isUrlRoutableMatchIpv6(url) ==
    LET hostname == getHostname(url) IN
    IF hostname = Null THEN Returns(TRUE)
    ELSE IF hostname = LOCALHOST \/ Includes(nonRoutableList, hostname)
         THEN Returns(FALSE)
    ELSE IF ~isIP(hostname) THEN Returns(TRUE)
    ELSE LET found == some(parsedCIDRList, parse(hostname), 1)
         IN  IF found.threw THEN Throws ELSE Returns(~found.value)

\* isUrlRoutable(url)
isUrlRoutable(url) ==
    LET hostname == getHostname(url) IN
    IF hostname = Null THEN Returns(TRUE)
    ELSE IF hostname = LOCALHOST \/ Includes(nonRoutableList, hostname)
         THEN Returns(FALSE)
    ELSE IF ~isIP(hostname) THEN Returns(TRUE)
    ELSE IF parse(hostname).kind = IPV6 THEN Returns(TRUE)
    ELSE LET found == some(parsedCIDRList, parse(hostname), 1)
         IN  IF found.threw THEN Throws ELSE Returns(~found.value)

\* ------------------------------------------------------------------ popup
\* GlobalStore before getPopupData is called: no call is running, none was made.
NoPopupData ==
    [isAuthenticated |-> FALSE, permissionsError |-> FALSE,
     hasRequiredData |-> FALSE, isPremiumToken |-> FALSE]
PopupIdle == [pc |-> "idle", step |-> 0, data |-> NoPopupData, calls |-> 0]

\* What messenger.getPopupData resolves with, as far as getPopupData branches
\* on it.
PopupData ==
    [isAuthenticated : BOOLEAN, permissionsError : BOOLEAN,
     hasRequiredData : BOOLEAN, isPremiumToken : BOOLEAN]

\* The calls getPopupData awaits after messenger.getPopupData, in order.
UnauthenticatedSteps ==
    << "handleInitPolicyAgreement", "getAuthCacheFromBackground",
       "setShowScreenshotFlow" >>
AuthenticatedSteps ==
    << "getLimitedOfferData", "getAuthCacheFromBackground",
       "setPolicyAgreement", "checkRateStatus", "getExclusionsInverted",
       "getCurrentTabHostname" >>
Steps(data) ==
    IF ~data.isAuthenticated THEN UnauthenticatedSteps
    ELSE IF data.isPremiumToken THEN Tail(AuthenticatedSteps)
    ELSE AuthenticatedSteps

serviceVars ==
    << phase, now, nonRoutableList, mapVars, throttleVars, stored, inflight,
       outVars, countVars, evicted, parsedCIDRList, answer, ignored, lost,
       budget >>

\* setInitStatus(status)
setInitStatus(status) == initStatus' = status

\* getPopupData is called: initStatus is set to Pending and the call waits for
\* tabs.getCurrent()
GetPopupDataCall ==
    /\ popup.pc \in {"idle", "returned", "threw"}
    /\ popup.calls < MaxPopupCalls
    /\ setInitStatus("Pending")
    /\ popup' = [popup EXCEPT !.pc = "getCurrent", !.step = 0,
                              !.calls = @ + 1]
    /\ UNCHANGED serviceVars

\* tabs.getCurrent() resolves: the try block is entered and
\* messenger.getPopupData is awaited
TabsGetCurrentDone ==
    /\ popup.pc = "getCurrent"
    /\ popup' = [popup EXCEPT !.pc = "getPopupData"]
    /\ UNCHANGED << initStatus, serviceVars >>

\* tabs.getCurrent() rejects: the await is before the try block, so the
\* rejection leaves getPopupData
TabsGetCurrentFail ==
    /\ popup.pc = "getCurrent"
    /\ popup' = [popup EXCEPT !.pc = "threw"]
    /\ UNCHANGED << initStatus, serviceVars >>

\* messenger.getPopupData resolves with popupData
PopupDataReceived ==
    /\ popup.pc = "getPopupData"
    /\ \E popupData \in PopupData :
          IF /\ popupData.isAuthenticated
             /\ ~popupData.permissionsError
             /\ ~popupData.hasRequiredData
          THEN /\ setInitStatus("Error")
               /\ popup' = [popup EXCEPT !.pc = "returned",
                                         !.data = popupData]
          ELSE /\ UNCHANGED initStatus
               /\ popup' = [popup EXCEPT !.pc = "awaiting", !.step = 1,
                                         !.data = popupData]
    /\ UNCHANGED serviceVars

\* the call awaited inside the try block resolves: the next one is awaited,
\* or initStatus is set to Done and getPopupData returns
AwaitDone ==
    /\ popup.pc = "awaiting"
    /\ IF popup.step < Len(Steps(popup.data))
       THEN /\ popup' = [popup EXCEPT !.step = @ + 1]
            /\ UNCHANGED initStatus
       ELSE /\ setInitStatus("Done")
            /\ popup' = [popup EXCEPT !.pc = "returned"]
    /\ UNCHANGED serviceVars

\* a call awaited inside the try block rejects: the catch block sets
\* initStatus to Error
AwaitFail ==
    /\ popup.pc \in {"getPopupData", "awaiting"}
    /\ setInitStatus("Error")
    /\ popup' = [popup EXCEPT !.pc = "returned"]
    /\ UNCHANGED serviceVars

\* --------------------------------------------------------------- actions
Constructed ==
    /\ phase = "constructed"
    /\ now = TimeOrigin
    /\ nonRoutableList = <<>>
    /\ webRequestErrorHostnames = EmptyMap
    /\ nonRoutableHostnames = EmptyMap
    /\ lastCallTime = Undefined
    /\ lastInvokeTime = 0
    /\ timerId = Undefined
    /\ lastArgs = FALSE
    /\ inflight = <<>>
    /\ notified = [h \in Hosts |-> 0]
    /\ tabsUpdated = [h \in Hosts |-> 0]
    /\ lastTabsUpdate = <<>>
    /\ committed = [h \in Hosts |-> 0]
    /\ failures = [h \in Hosts |-> 0]
    /\ reports = [h \in Hosts |-> 0]
    /\ evicted = 0
    /\ sweptStale = {}
    /\ answer = <<>>
    /\ ignored = [report |-> 0, failure |-> 0]
    /\ lost = {}
    /\ initStatus = "Pending"
    /\ popup = PopupIdle

\* nothing in storage when the service starts
Init ==
    /\ Constructed
    /\ stored = NoValue
    /\ parsedCIDRList = NON_ROUTABLE_CIDR_NETS
    /\ budget = [events |-> MaxEvents, adds |-> MaxAdds, noops |-> 0,
                 fails |-> 0, queries |-> 0, drain |-> FALSE, literals |-> {}]

\* an earlier session left a list one short of the maximum length
InitFull ==
    /\ Constructed
    /\ stored = StoredFull
    /\ parsedCIDRList = NON_ROUTABLE_CIDR_NETS
    /\ budget = [events |-> MaxEventsFull, adds |-> MaxAddsFull, noops |-> 0,
                 fails |-> 0, queries |-> 0, drain |-> FALSE, literals |-> {}]

\* init() is called: storage.get is issued and init waits for it
InitStart ==
    /\ phase = "constructed"
    /\ phase' = "loading"
    /\ UNCHANGED << now, nonRoutableList, mapVars, throttleVars, stored,
                    inflight, outVars, countVars, evicted, callVars, budget >>

\* init() resumes with the value of storage.get: load the list and subscribe
\* the handlers
InitService ==
    /\ phase = "loading"
    /\ phase' = "ready"
    /\ nonRoutableList' = IF stored.present THEN stored.value ELSE <<>>
    /\ UNCHANGED << now, mapVars, throttleVars, stored, inflight, outVars,
                    countVars, evicted, callVars, budget >>

\* storage.get rejects: the await in init() throws, init() returns a rejected
\* promise and the statements after the await do not run
InitServiceFail ==
    /\ phase = "loading"
    /\ budget.fails > 0
    /\ phase' = "failed"
    /\ UNCHANGED << now, nonRoutableList, mapVars, throttleVars, stored,
                    inflight, outVars, countVars, evicted, callVars, budget >>

\* Mutant of Subscribed: handlers subscribed by the constructor.
SubscribedAtConstruction == TRUE

\* The handlers are subscribed by the statements of init() after its await.
Subscribed == phase = "ready"

\* a handler returns before it acts
Ignore(handler) ==
    /\ ignored.report + ignored.failure < budget.noops
    /\ ignored' = [ignored EXCEPT ![handler] = @ + 1]
    /\ UNCHANGED << phase, now, nonRoutableList, mapVars, throttleVars, stored,
                    inflight, outVars, countVars, evicted, fixedVars,
                    answer, lost, budget >>

\* Mutant of NoHostname: only the test for an empty argument.
NoHostnameEmptyOnly(nonRoutableDomain) == Falsy(nonRoutableDomain)

\* the early returns of handleNonRoutableDomains
NoHostname(nonRoutableDomain) ==
    Falsy(nonRoutableDomain) \/ getHostname(nonRoutableDomain) = Null

\* Mutant of Qualifies: the condition without the test of the request type.
QualifiesAnyFrame(details) ==
    details.error = ERROR \/ details.statusCode = STATUS_CODE

\* the condition under which handleWebRequestErrors acts
Qualifies(details) ==
    /\ (details.error = ERROR \/ details.statusCode = STATUS_CODE)
    /\ details.type = MAIN_FRAME

\* handleNonRoutableDomains(nonRoutableDomain)
handleNonRoutableDomains(nonRoutableDomain) ==
    /\ Subscribed
    /\ LET hostname == getHostname(nonRoutableDomain) IN
       IF NoHostname(nonRoutableDomain)
       THEN Ignore("report")
       ELSE LET found == getByHostname(hostname, webRequestErrorHostnames)
                webRequestError == found.value
                matched == /\ webRequestError # <<>>
                           /\ webRequestError[1].tabId # 0
                           /\ ~Falsy(webRequestError[1].url)
            IN
            /\ budget.events > 0
            /\ Spend("events")
            /\ reports' = [reports EXCEPT ![hostname] = @ + 1]
            /\ webRequestErrorHostnames' = found.storage
            /\ IF matched
               THEN /\ addNewNonRoutableDomain(hostname)
                    /\ tabsUpdate(webRequestError[1].tabId,
                                  webRequestError[1].url)
                    /\ nonRoutableHostnames' =
                           clearStaleValues(nonRoutableHostnames, now)
               ELSE /\ nonRoutableHostnames' =
                           clearStaleValues(
                               MapSet(nonRoutableHostnames, hostname,
                                      [timeAdded |-> now]), now)
                    /\ UNCHANGED << nonRoutableList, throttleVars, evicted,
                                    inflight, outVars >>
            /\ sweptStale' = Swept("nonRoutable", nonRoutableHostnames', now,
                                   hostname)
            /\ UNCHANGED << phase, now, stored, failures, callVars >>

\* handleWebRequestErrors(details)
handleWebRequestErrors(details) ==
    /\ Subscribed
    /\ LET hostname == getHostname(details.url) IN
       IF ~Qualifies(details) \/ hostname = Null
       THEN Ignore("failure")
       ELSE LET found == getByHostname(hostname, nonRoutableHostnames)
                result == found.value
            IN
            /\ budget.events > 0
            /\ Spend("events")
            /\ failures' = [failures EXCEPT ![hostname] = @ + 1]
            /\ nonRoutableHostnames' = found.storage
            /\ IF result # <<>>
               THEN /\ addNewNonRoutableDomain(hostname)
                    /\ tabsUpdate(details.tabId, details.url)
                    /\ webRequestErrorHostnames' =
                           clearStaleValues(webRequestErrorHostnames, now)
               ELSE /\ webRequestErrorHostnames' =
                           clearStaleValues(
                               MapSet(webRequestErrorHostnames, hostname,
                                      [timeAdded |-> now,
                                       tabId |-> details.tabId,
                                       url |-> details.url]), now)
                    /\ UNCHANGED << nonRoutableList, throttleVars, evicted,
                                    inflight, outVars >>
            /\ sweptStale' = Swept("webRequestError",
                                   webRequestErrorHostnames', now, hostname)
            /\ UNCHANGED << phase, now, stored, reports, callVars >>

\* The events of webRequest.onHeadersReceived and onErrorOccurred: every
\* combination of type, status and error for one url and tab, and the
\* main-frame 502 for every url and tab.
Details ==
    [url : {UrlOf(1)}, type : {MAIN_FRAME, "sub_frame"}, tabId : {1},
     statusCode : {200, STATUS_CODE}, error : {"", ERROR}]
    \cup
    [url : Urls, type : {MAIN_FRAME}, tabId : TabIds,
     statusCode : {STATUS_CODE}, error : {""}]

NonRoutableDomainFound == \E d \in Reports : handleNonRoutableDomains(d)

WebRequestEvent == \E details \in Details : handleWebRequestErrors(details)

\* a direct call of the public method addHostname
AddHostnameCall ==
    /\ phase = "ready"
    /\ \E h \in Hosts \cup budget.literals :
          /\ addHostname(h)
          /\ IF Includes(nonRoutableList, h)
             THEN UNCHANGED budget
             ELSE budget.adds > 0 /\ Spend("adds")
    /\ UNCHANGED << phase, now, mapVars, stored, outVars, countVars, callVars >>

\* Mutant of TimerExpired: a timer that drops the waiting call instead of
\* running the wrapped function on the trailing edge.
TimerExpiredNoTrailing ==
    /\ timerId # Undefined
    /\ now >= timerId
    /\ IF shouldInvoke(now)
       THEN /\ timerId' = Undefined
            /\ lastArgs' = FALSE
       ELSE /\ timerId' = now + remainingWait(now)
            /\ UNCHANGED lastArgs
    /\ UNCHANGED << phase, now, nonRoutableList, mapVars, lastCallTime,
                    lastInvokeTime, stored, inflight, outVars, countVars,
                    evicted, callVars, budget >>

\* the throttle's timer fires: timerExpired()
TimerExpired ==
    /\ timerId # Undefined
    /\ now >= timerId
    /\ IF shouldInvoke(now)
       THEN /\ timerId' = Undefined
            /\ IF lastArgs
               THEN /\ lastArgs' = FALSE
                    /\ lastInvokeTime' = now
                    /\ Flush(nonRoutableList)
               ELSE UNCHANGED << lastArgs, lastInvokeTime, nonRoutableList,
                                 evicted, inflight >>
       ELSE /\ timerId' = now + remainingWait(now)
            /\ UNCHANGED << lastArgs, lastInvokeTime, nonRoutableList,
                            evicted, inflight >>
    /\ UNCHANGED << phase, now, mapVars, lastCallTime, stored, outVars,
                    countVars, callVars, budget >>

\* the oldest storage.set completes and the value is stored
StorageSetDone ==
    /\ inflight # <<>>
    /\ stored' = Value(Head(inflight))
    /\ inflight' = Tail(inflight)
    /\ lost' = {h \in lost : ~Includes(Head(inflight), h)}
    /\ UNCHANGED << phase, now, nonRoutableList, mapVars, throttleVars,
                    outVars, countVars, evicted, fixedVars, answer,
                    ignored, budget >>

\* Mutant of StorageSetFail: a rejected storage.set that rolls the list back to
\* the stored value.
StorageSetFailRollback ==
    /\ inflight # <<>>
    /\ budget.fails > 0
    /\ Spend("fails")
    /\ inflight' = Tail(inflight)
    /\ nonRoutableList' = stored.value
    /\ lost' = lost \cup {Head(inflight)[i] : i \in
                  {j \in 1 .. Len(Head(inflight)) :
                      ~Includes(stored.value, Head(inflight)[j])}}
    /\ UNCHANGED << phase, now, mapVars, throttleVars,
                    stored, outVars, countVars, evicted, fixedVars,
                    answer, ignored >>

\* the oldest storage.set rejects: nothing is stored, the promise of
\* updateStorage rejects and nobody awaits it
StorageSetFail ==
    /\ inflight # <<>>
    /\ budget.fails > 0
    /\ Spend("fails")
    /\ inflight' = Tail(inflight)
    /\ lost' = lost \cup {Head(inflight)[i] : i \in
                  {j \in 1 .. Len(Head(inflight)) :
                      ~Includes(stored.value, Head(inflight)[j])}}
    /\ UNCHANGED << phase, now, nonRoutableList, mapVars, throttleVars,
                    stored, outVars, countVars, evicted, fixedVars,
                    answer, ignored >>

\* time passes; a timer that is due fires before the clock moves on
Tick ==
    /\ \/ now + TickMs <= TimeOrigin + MaxElapsed
       \/ budget.drain /\ timerId # Undefined
    /\ timerId = Undefined \/ now < timerId
    /\ now' = now + TickMs
    /\ UNCHANGED << phase, nonRoutableList, mapVars, throttleVars, stored,
                    inflight, outVars, countVars, evicted, callVars, budget >>

Next ==
    \/ InitStart
    \/ InitService
    \/ NonRoutableDomainFound
    \/ WebRequestEvent
    \/ AddHostnameCall
    \/ TimerExpired
    \/ StorageSetDone
    \/ Tick

\* Mutant of IsUrlRoutableCall: a call that also remembers the hostname of a
\* url it found not routable.
IsUrlRoutableCallLearning ==
    /\ phase = "ready"
    /\ budget.queries > 0
    /\ Spend("queries")
    /\ \E url \in ClassifierUrls :
          /\ answer' = << [url |-> url, result |-> isUrlRoutable(url)] >>
          /\ nonRoutableList' =
                IF isUrlRoutable(url) = Returns(FALSE)
                   /\ ~Includes(nonRoutableList, getHostname(url))
                THEN Append(nonRoutableList, getHostname(url))
                ELSE nonRoutableList
    /\ UNCHANGED << phase, now, mapVars, throttleVars, stored, inflight,
                    outVars, countVars, evicted, fixedVars, ignored, lost >>

\* a call of the public method isUrlRoutable
IsUrlRoutableCall ==
    /\ phase = "ready"
    /\ budget.queries > 0
    /\ Spend("queries")
    /\ \E url \in ClassifierUrls :
          answer' = << [url |-> url, result |-> isUrlRoutable(url)] >>
    /\ UNCHANGED << phase, now, nonRoutableList, mapVars, throttleVars, stored,
                    inflight, outVars, countVars, evicted, fixedVars,
                    ignored, lost >>

Spec == Init /\ [][Next]_vars

SpecFull == InitFull /\ [][Next]_vars

\* Storage faults: storage.get and storage.set may reject.
InitFaults ==
    /\ Constructed
    /\ stored = NoValue
    /\ parsedCIDRList = NON_ROUTABLE_CIDR_NETS
    /\ budget = [events |-> MaxEventsFaults, adds |-> MaxAddsFaults,
                 noops |-> 0, fails |-> MaxFails, queries |-> 0,
                 drain |-> FALSE, literals |-> {}]

NextFaults ==
    \/ Next
    \/ InitServiceFail
    \/ StorageSetFail

SpecFaults == InitFaults /\ [][NextFaults]_vars

\* Input the handlers return on: the calls of the handlers that return before
\* they act are modelled too.
InitInputs ==
    /\ Constructed
    /\ stored = NoValue
    /\ parsedCIDRList = NON_ROUTABLE_CIDR_NETS
    /\ budget = [events |-> MaxEventsInputs, adds |-> MaxAddsInputs,
                 noops |-> MaxNoops, fails |-> 0, queries |-> 0,
                 drain |-> FALSE, literals |-> {}]

SpecInputs == InitInputs /\ [][Next]_vars

\* Progress: timers fire, storage.set calls complete and time passes, also
\* beyond MaxElapsed while a timer is pending.
InitLive ==
    /\ Constructed
    /\ stored = NoValue
    /\ parsedCIDRList = NON_ROUTABLE_CIDR_NETS
    /\ budget = [events |-> MaxEventsLive, adds |-> MaxAddsLive, noops |-> 0,
                 fails |-> 0, queries |-> 0, drain |-> TRUE, literals |-> {}]

\* The events of SpecLive: reports and failed main-frame requests of one host
\* on one tab; the other hostnames arrive through addHostname.
LiveReports == {UrlOf(1)}
LiveDetails ==
    [url : {UrlOf(1)}, type : {MAIN_FRAME}, tabId : {1},
     statusCode : {STATUS_CODE}, error : {""}]

NextLive ==
    \/ InitStart
    \/ InitService
    \/ \E d \in LiveReports : handleNonRoutableDomains(d)
    \/ \E details \in LiveDetails : handleWebRequestErrors(details)
    \/ AddHostnameCall
    \/ TimerExpired
    \/ StorageSetDone
    \/ Tick

SpecLive ==
    /\ InitLive
    /\ [][NextLive]_vars
    /\ WF_vars(TimerExpired)
    /\ WF_vars(StorageSetDone)
    /\ WF_vars(Tick)

\* The popup: getPopupData is called and the calls it awaits resolve or reject.
InitPopup ==
    /\ Constructed
    /\ stored = NoValue
    /\ parsedCIDRList = NON_ROUTABLE_CIDR_NETS
    /\ budget = [events |-> 0, adds |-> 0, noops |-> 0, fails |-> 0,
                 queries |-> 0, drain |-> FALSE, literals |-> {}]

NextPopup ==
    \/ GetPopupDataCall
    \/ TabsGetCurrentDone
    \/ TabsGetCurrentFail
    \/ PopupDataReceived
    \/ AwaitDone
    \/ AwaitFail

SpecPopup == InitPopup /\ [][NextPopup]_vars

\* The classifier: storage holds one of the lists of StoredLists, the build
\* configures one of the lists of ranges, and isUrlRoutable is called.
StoredLists ==
    {<<>>, <<1>>, <<2, LOCALHOST>>, <<IpBase + 2>>, <<IpBase + 7, 1>>}

ClassifierBudget ==
    [events |-> 0, adds |-> MaxAddsClassifier, noops |-> 0, fails |-> 0,
     queries |-> MaxQueries, drain |-> FALSE, literals |-> {IpBase + 5, IpBase + 8}]

InitClassifier ==
    /\ Constructed
    /\ stored \in {NoValue} \cup {Value(list) : list \in StoredLists}
    /\ parsedCIDRList \in {NON_ROUTABLE_CIDR_NETS, LoopbackOnly}
    /\ budget = ClassifierBudget

InitIpv6Range ==
    /\ Constructed
    /\ stored \in {NoValue} \cup {Value(list) : list \in StoredLists}
    /\ parsedCIDRList = WithIpv6Range
    /\ budget = ClassifierBudget

NextClassifier ==
    \/ InitStart
    \/ InitService
    \/ IsUrlRoutableCall
    \/ AddHostnameCall
    \/ TimerExpired
    \/ StorageSetDone
    \/ Tick

SpecClassifier == InitClassifier /\ [][NextClassifier]_vars

SpecIpv6Range == InitIpv6Range /\ [][NextClassifier]_vars

\* ------------------------------------------------------------- claims
Age(entry) == now - entry.timeAdded

\* A step in which a report for h, or a qualifying webRequest event for h, is
\* handled.
ReportHandled(h) == reports'[h] = reports[h] + 1
FailureHandled(h) == failures'[h] = failures[h] + 1
Commits(h) == committed'[h] - committed[h]
Retries(h) == tabsUpdated'[h] - tabsUpdated[h]

\* C1 (order independence): when the second half of a pair for h is handled
\* while the first half is pending and not older than the TTL, in either
\* order, that step calls addHostname(h) once and fires one tabs.update; and
\* when exactly one qualifying webRequest event and one report for h have
\* occurred within the first TTL of the run, h has been committed exactly once
\* with exactly one retry.
C1_SecondHalfCommits ==
    \A h \in EventHosts :
        \/ /\ ReportHandled(h)
           /\ Has(webRequestErrorHostnames, h)
           /\ Age(webRequestErrorHostnames[h]) <= VALUE_TTL_MS
        \/ /\ FailureHandled(h)
           /\ Has(nonRoutableHostnames, h)
           /\ Age(nonRoutableHostnames[h]) <= VALUE_TTL_MS
        => Commits(h) = 1 /\ Retries(h) = 1

C1_PairCommittedOnce ==
    \A h \in EventHosts :
        /\ failures[h] = 1
        /\ reports[h] = 1
        /\ now <= TimeOrigin + VALUE_TTL_MS
        => committed[h] = 1 /\ tabsUpdated[h] = 1

C1_OrderIndependence ==
    []C1_PairCommittedOnce /\ [][C1_SecondHalfCommits]_vars

C1_Witness ==
    \E h \in EventHosts :
        /\ failures[h] = 1
        /\ reports[h] = 1
        /\ now <= TimeOrigin + VALUE_TTL_MS
        /\ committed[h] = 1
        /\ tabsUpdated[h] = 1

\* C2 (no premature commit): a hostname has a commit, a notification or a
\* retry only if both a qualifying webRequest event and a report for it have
\* occurred, whatever happened for the other hostnames.
C2_NoPrematureCommit ==
    \A h \in EventHosts :
        (committed[h] > 0 \/ notified[h] > 0 \/ tabsUpdated[h] > 0)
        => (failures[h] >= 1 /\ reports[h] >= 1)

C2_Witness ==
    \E h, g \in EventHosts :
        /\ h # g
        /\ committed[g] >= 1
        /\ failures[h] + reports[h] >= 1
        /\ (failures[h] = 0 \/ reports[h] = 0)
        /\ committed[h] = 0 /\ notified[h] = 0 /\ tabsUpdated[h] = 0

\* C3 (staleness sweep): after a handled event that inserts into a pending
\* mapping, that mapping holds no entry older than the TTL and has kept every
\* entry that is not older than the TTL.
Inserted(before, after) ==
    \E k \in DOMAIN after : k \notin DOMAIN before \/ after[k] # before[k]

SweptClean(before, after) ==
    /\ \A k \in DOMAIN after : Age(after[k]) <= VALUE_TTL_MS
    /\ \A k \in DOMAIN before :
          Age(before[k]) <= VALUE_TTL_MS => k \in DOMAIN after

C3_StalenessSweep ==
    [][ /\ Inserted(webRequestErrorHostnames, webRequestErrorHostnames')
           => SweptClean(webRequestErrorHostnames, webRequestErrorHostnames')
        /\ Inserted(nonRoutableHostnames, nonRoutableHostnames')
           => SweptClean(nonRoutableHostnames, nonRoutableHostnames') ]_vars

\* C4 (expired entries never commit): once a sweep of its mapping ran while a
\* pending entry for h was older than the TTL, a later event for h from the
\* other source commits nothing and is recorded as a new pending entry.
C4_ExpiredNeverCommits ==
    [][ \A h \in EventHosts :
          /\ <<"webRequestError", h>> \in sweptStale /\ ReportHandled(h)
             => /\ Commits(h) = 0 /\ Retries(h) = 0
                /\ Has(nonRoutableHostnames', h)
          /\ <<"nonRoutable", h>> \in sweptStale /\ FailureHandled(h)
             => /\ Commits(h) = 0 /\ Retries(h) = 0
                /\ Has(webRequestErrorHostnames', h) ]_vars

\* C5 (consume-once matching): the commits of a hostname never outnumber its
\* qualifying webRequest events nor its reports.
C5_ConsumeOnce ==
    \A h \in EventHosts :
        committed[h] <= Min(failures[h], reports[h])

C5_Witness ==
    \E h \in EventHosts :
        /\ committed[h] = 1
        /\ failures[h] + reports[h] = 3

\* C6 (no duplicates): the list never holds a hostname twice, and a commit of
\* a hostname that is already in the list leaves the list as it is.
NoDuplicates(list) ==
    Cardinality({list[i] : i \in 1 .. Len(list)}) = Len(list)

C6_ListDuplicateFree == NoDuplicates(nonRoutableList)

C6_PresentIsNoOp ==
    \A h \in EventHosts :
        Commits(h) = 1 /\ Includes(nonRoutableList, h)
        => nonRoutableList' = nonRoutableList

C6_NoDuplicates ==
    []C6_ListDuplicateFree /\ [][C6_PresentIsNoOp]_vars

C6_Witness ==
    /\ committed[1] >= 1
    /\ evicted = 0
    /\ Len(nonRoutableList) > NON_ROUTABLE_MAX_LENGTH - 1
    /\ nonRoutableList[1] = 1

\* C7 (notification): a step broadcasts 'non-routable domain added' for h
\* exactly when it is a correlation commit that adds h to the list as a new
\* entry.
C7_NotifyOnlyNewEntry ==
    [][ \A h \in EventHosts :
          notified'[h] # notified[h]
          <=> /\ Commits(h) = 1
              /\ ~Includes(nonRoutableList, h)
              /\ Includes(nonRoutableList', h) ]_vars

\* C8 (capacity): the list is never longer than NON_ROUTABLE_MAX_LENGTH.
C8_Capacity == Len(nonRoutableList) <= NON_ROUTABLE_MAX_LENGTH

\* C9 (eviction): a flush leaves at most NON_ROUTABLE_MAX_LENGTH entries, which
\* are the newest ones in insertion order, and drops the smallest multiple of
\* CLEAR_CAPACITY entries that achieves this; outside a flush the list only
\* grows at its end.
FlushRan == lastInvokeTime' # lastInvokeTime

BeforeFlush == {nonRoutableList} \cup {Append(nonRoutableList, h) : h \in Hosts}

C9_FlushEvicts ==
    FlushRan =>
        \E pre \in BeforeFlush :
            LET k == Len(pre) - Len(nonRoutableList') IN
            /\ k >= 0
            /\ k = evicted' - evicted
            /\ nonRoutableList' = Slice(pre, k)
            /\ Len(nonRoutableList') <= NON_ROUTABLE_MAX_LENGTH
            /\ k % CLEAR_CAPACITY = 0
            /\ k > 0 => Len(pre) - (k - CLEAR_CAPACITY) > NON_ROUTABLE_MAX_LENGTH

C9_AppendOnly ==
    (~FlushRan /\ phase = "ready") =>
        /\ nonRoutableList' # nonRoutableList => nonRoutableList' \in BeforeFlush
        /\ evicted' = evicted

C9_Eviction == [][C9_FlushEvicts /\ C9_AppendOnly]_vars

C9_Witness ==
    /\ evicted = CLEAR_CAPACITY
    /\ Len(nonRoutableList) = NON_ROUTABLE_MAX_LENGTH + 1 - CLEAR_CAPACITY

\* C10 (throttled flush): at most one flush per throttle window, that is, two
\* flushes are never started less than STORAGE_UPDATE_TIMEOUT_MS apart, and a
\* flush hands storage.set the list as it is when the flush runs.
C10_FlushStep ==
    FlushRan =>
        /\ now - lastInvokeTime >= STORAGE_UPDATE_TIMEOUT_MS
        /\ inflight' = Append(inflight, nonRoutableList')

C10_ThrottledFlush == [][C10_FlushStep]_vars

\* C11 (storage write failure): a storage.set that rejects leaves the list and
\* everything else of the service as it was, so no caller sees an error; the
\* hostnames of the failed write stay in the list, and the next storage.set
\* that succeeds stores a value that holds them.
SetRejected ==
    inflight # <<>> /\ inflight' = Tail(inflight) /\ stored' = stored

SetResolved ==
    inflight # <<>> /\ inflight' = Tail(inflight)
    /\ stored' = Value(Head(inflight))

C11_LostKeptInMemory == \A h \in lost : Includes(nonRoutableList, h)

C11_FailureStep ==
    SetRejected =>
        UNCHANGED << phase, nonRoutableList, mapVars, throttleVars, outVars,
                     countVars, evicted >>

C11_NextWriteStep ==
    SetResolved => \A h \in lost : Includes(stored'.value, h)

C11_WriteFailure ==
    []C11_LostKeptInMemory /\ [][C11_FailureStep /\ C11_NextWriteStep]_vars

C11_Witness ==
    /\ budget.fails < MaxFails
    /\ lost = {}
    /\ stored.present
    /\ stored.value = nonRoutableList

\* C12 (storage read failure at startup): when init() leaves its wait for
\* storage.get and the read failed or found no value, the list is empty and
\* both handlers are subscribed.
C12_LoadStep ==
    /\ phase = "loading" /\ phase' # "loading"
    /\ (phase' = "failed" \/ ~stored.present)
    => nonRoutableList' = <<>> /\ Subscribed'

C12_ReadFailure == [][C12_LoadStep]_vars

\* C13 (classifier decision): isUrlRoutable answers routable for a url without
\* a hostname; else not routable for 'localhost' and for a hostname of the
\* list; else routable for a hostname that is no IP literal; else, for an IPv4
\* literal, not routable exactly when the address lies in one of the
\* configured IPv4 ranges.
Top24(parts) == parts[1] * 65536 + parts[2] * 256 + parts[3]

InRange(addr, net) ==
    /\ net.addr.kind = IPV4
    /\ net.bits <= 24
    /\ Top24(addr.parts) \div Pow2(24 - net.bits)
         = Top24(net.addr.parts) \div Pow2(24 - net.bits)

Listed(h) == h \in {nonRoutableList[i] : i \in 1 .. Len(nonRoutableList)}

C13_Expected(url) ==
    LET h == getHostname(url) IN
    IF url \in {EmptyString, Garbage} THEN TRUE
    ELSE IF h = LOCALHOST \/ Listed(h) THEN FALSE
    ELSE IF h \notin IpHosts THEN TRUE
    ELSE ~ \E i \in 1 .. Len(parsedCIDRList) :
               InRange(parse(h), parsedCIDRList[i])

C13_Inputs == {url \in ClassifierUrls : getHostname(url) \notin Ipv6Hosts}

C13_EveryUrl ==
    \A url \in C13_Inputs : isUrlRoutable(url) = Returns(C13_Expected(url))

Called == budget'.queries # budget.queries

C13_CallStep ==
    Called /\ answer'[1].url \in C13_Inputs
    => answer'[1].result = Returns(C13_Expected(answer'[1].url))

C13_Decision == []C13_EveryUrl /\ [][C13_CallStep]_vars

C13_Witness ==
    /\ answer # <<>>
    /\ answer[1].url = UrlOf(IpBase + 4)
    /\ answer[1].result = Returns(FALSE)
    /\ ~Listed(IpBase + 4)
    /\ Listed(LOCALHOST)

\* C14 (IPv6 bypass): isUrlRoutable answers routable for every IPv6 literal
\* that is not in the list, also when the literal lies in a configured IPv6
\* range.
C14_EveryLiteral ==
    \A h \in Ipv6Hosts : ~Listed(h) => isUrlRoutable(UrlOf(h)) = Returns(TRUE)

C14_CallStep ==
    Called /\ getHostname(answer'[1].url) \in Ipv6Hosts
           /\ ~Listed(getHostname(answer'[1].url))
    => answer'[1].result = Returns(TRUE)

C14_Ipv6Bypass == []C14_EveryLiteral /\ [][C14_CallStep]_vars

C14_Witness ==
    /\ answer # <<>>
    /\ answer[1].url = UrlOf(IpBase + 8)
    /\ answer[1].result = Returns(TRUE)
    /\ \E i \in 1 .. Len(parsedCIDRList) :
          /\ parsedCIDRList[i].addr.kind = IPV6
          /\ match(parse(IpBase + 8), parsedCIDRList[i]) = Returns(TRUE)

\* C15 (learned hostnames take effect at once): when addHostname(h) returns,
\* called directly or by a correlation commit, for a domain name h that was
\* routable, isUrlRoutable answers not routable for a url of h, and it does so
\* in every later state, whether or not a flush has run.
C15_AddStep ==
    \A h \in Hosts :
        /\ isUrlRoutable(UrlOf(h)) = Returns(TRUE)
        /\ \/ Commits(h) = 1
           \/ budget'.adds # budget.adds /\ addHostname(h)
        => isUrlRoutable(UrlOf(h))' = Returns(FALSE)

C15_StaysLearned ==
    \A h \in Hosts :
        phase = "ready" /\ isUrlRoutable(UrlOf(h)) = Returns(FALSE)
        => isUrlRoutable(UrlOf(h))' = Returns(FALSE)

C16_CallStep ==
    Called =>
        UNCHANGED << phase, nonRoutableList, mapVars, throttleVars, stored,
                     inflight, outVars, countVars, evicted, lost >>

C16_ReadOnly == [][C16_CallStep]_vars

C16_Witness ==
    /\ answer # <<>>
    /\ answer[1].result = Returns(FALSE)
    /\ ~Listed(getHostname(answer[1].url))
    /\ timerId # Undefined
    /\ inflight # <<>>

\* C17 (transport-failure filter): handleWebRequestErrors called with details
\* whose type is not main_frame, or with neither the tunnel error nor status
\* 502, or with a url without a hostname, changes nothing: no mapping, no
\* list, no commit, no retry, no notification, no sweep.
ServiceUnchanged ==
    UNCHANGED << phase, nonRoutableList, mapVars, throttleVars, stored,
                 inflight, outVars, countVars, evicted, lost >>

C17_Acts(details) ==
    /\ details.type = "main_frame"
    /\ (details.error = "net::ERR_TUNNEL_CONNECTION_FAILED"
        \/ details.statusCode = 502)
    /\ details.url \notin {EmptyString, Garbage}

C17_Step ==
    \A details \in Details :
        ~C17_Acts(details) /\ handleWebRequestErrors(details)
        => ServiceUnchanged

C17_FailureFilter == [][C17_Step]_vars

C17_Witness ==
    /\ ignored.failure = 1
    /\ Has(nonRoutableHostnames, 1)
    /\ failures[1] = 0
    /\ committed[1] = 0

\* C18 (report without a hostname): handleNonRoutableDomains called with the
\* empty string, or with text no hostname can be extracted from, changes
\* nothing.
C18_Step ==
    \A nonRoutableDomain \in {EmptyString, Garbage} :
        handleNonRoutableDomains(nonRoutableDomain) => ServiceUnchanged

C18_ReportIgnored == [][C18_Step]_vars

C18_Witness ==
    /\ ignored.report = 1
    /\ DOMAIN webRequestErrorHostnames # {}
    /\ \A h \in Hosts : reports[h] = 0

\* C19 (report without a usable match): a report for h that finds no
\* webRequest error entry for h, or one without a tab id or without a url,
\* commits nothing, retries nothing and is recorded in nonRoutableHostnames
\* as {timeAdded: now}; after the report webRequestErrorHostnames holds no
\* entry for h.
UsableMatch(h) ==
    /\ Has(webRequestErrorHostnames, h)
    /\ webRequestErrorHostnames[h].tabId # 0
    /\ webRequestErrorHostnames[h].url # EmptyString

C19_Step ==
    \A h \in EventHosts :
        ReportHandled(h) /\ ~UsableMatch(h)
        => /\ Commits(h) = 0
           /\ Retries(h) = 0
           /\ UNCHANGED << nonRoutableList, outVars >>
           /\ Has(nonRoutableHostnames', h)
           /\ nonRoutableHostnames'[h] = [timeAdded |-> now]
           /\ ~Has(webRequestErrorHostnames', h)

C19_NoUsableMatch == [][C19_Step]_vars

C19_Witness ==
    \E h \in EventHosts :
        /\ reports[h] = 1
        /\ failures[h] = 0
        /\ Has(nonRoutableHostnames, h)
        /\ nonRoutableHostnames[h].timeAdded = now
        /\ committed[h] = 0
        /\ DOMAIN webRequestErrorHostnames = EventHosts \ {h}

\* C20 (startup ordering): a report or a webRequest event is handled only
\* after init() has loaded the list, so the load happens before any commit
\* and a committed hostname is never wiped from the list by the load.
C20_HandledWhenLoaded ==
    (\E h \in EventHosts : ReportHandled(h) \/ FailureHandled(h) \/ Commits(h) # 0)
    => phase = "ready"

C20_LoadBeforeCommits ==
    phase' # phase =>
        /\ \A h \in Hosts : committed[h] = 0 /\ reports[h] = 0 /\ failures[h] = 0
        /\ nonRoutableList = <<>>

C20_CommittedKept ==
    \A h \in EventHosts :
        committed[h] > 0 /\ evicted = 0 => Includes(nonRoutableList, h)

C20_StartupOrdering ==
    []C20_CommittedKept
    /\ [][C20_HandledWhenLoaded /\ C20_LoadBeforeCommits]_vars

C20_Witness ==
    /\ phase = "ready"
    /\ committed[2] = 1
    /\ Includes(nonRoutableList, 2)
    /\ Len(nonRoutableList) = NON_ROUTABLE_MAX_LENGTH
    /\ nonRoutableList[1] = 1

\* C21 (eventual persistence): with timers firing and storage.set calls
\* completing, every hostname of the list is eventually in the stored value
\* unless it has left the list, and from some time on the stored value equals
\* the list, also when two storage.set calls were in flight together.
C21_Written ==
    \A h \in Hosts :
        Includes(nonRoutableList, h)
        ~> (Includes(stored.value, h) \/ ~Includes(nonRoutableList, h))

C21_Settles == <>[](stored.value = nonRoutableList)

C21_EventualPersistence == C21_Written /\ C21_Settles

C21_Witness ==
    /\ Len(inflight) = 2
    /\ inflight[1] # inflight[2]
    /\ inflight[2] = nonRoutableList
    /\ stored.value # inflight[1]

\* C22 (retry target): a qualifying webRequest event for h that finds no
\* pending report becomes the entry of h, replacing an earlier one; a report
\* that commits h issues one tabs.update with the tab id and url of that
\* entry, and a qualifying webRequest event that commits h issues one
\* tabs.update with its own tab id and url.
Retry(tabId, url) == << [tabId |-> tabId, url |-> url] >>

C22_ReportCommits ==
    \A h \in EventHosts :
        ReportHandled(h) /\ Commits(h) = 1
        => /\ Has(webRequestErrorHostnames, h)
           /\ Retries(h) = 1
           /\ lastTabsUpdate' = Retry(webRequestErrorHostnames[h].tabId,
                                      webRequestErrorHostnames[h].url)

C22_FailureHandled ==
    \A details \in Details :
        C17_Acts(details) /\ FailureHandled(getHostname(details.url))
        /\ handleWebRequestErrors(details)
        => LET h == getHostname(details.url) IN
           IF Commits(h) = 1
           THEN Retries(h) = 1
                /\ lastTabsUpdate' = Retry(details.tabId, details.url)
           ELSE webRequestErrorHostnames'[h] =
                    [timeAdded |-> now, tabId |-> details.tabId,
                     url |-> details.url]

C22_RetryTarget == [][C22_ReportCommits /\ C22_FailureHandled]_vars

C22_Witness ==
    \E h \in EventHosts :
        /\ failures[h] = 2
        /\ reports[h] = 1
        /\ committed[h] = 1
        /\ tabsUpdated[h] = 1
        /\ lastTabsUpdate = Retry(2, UrlOf(h))
        /\ ~Has(webRequestErrorHostnames, h)

\* C23 (pending state is exclusive): no hostname has an entry in both pending
\* mappings, and a handled event for h leaves no entry of h in the mapping of
\* the other source.
C23_Exclusive ==
    \A h \in EventHosts :
        ~(Has(webRequestErrorHostnames, h) /\ Has(nonRoutableHostnames, h))

C23_HandlerStep ==
    \A h \in EventHosts :
        /\ ReportHandled(h) => ~Has(webRequestErrorHostnames', h)
        /\ FailureHandled(h) => ~Has(nonRoutableHostnames', h)

C23_MutualExclusion == []C23_Exclusive /\ [][C23_HandlerStep]_vars

C23_Witness ==
    \E h \in EventHosts :
        /\ failures[h] = 2
        /\ reports[h] = 1
        /\ committed[h] = 1
        /\ Has(webRequestErrorHostnames, h)
        /\ ~Has(nonRoutableHostnames, h)

\* C24 (commit and retry are paired): for every hostname the tabs.update
\* calls for its urls are as many as the addNewNonRoutableDomain calls for it.
C24_Paired == \A h \in Hosts : tabsUpdated[h] = committed[h]

C24_Witness ==
    /\ committed[1] = 1
    /\ tabsUpdated[1] = 1
    /\ committed[2] = 0
    /\ tabsUpdated[2] = 0
    /\ failures[2] + reports[2] = 1

\* C25 (eviction forgets hostnames): the entries a flush evicts are no longer
\* in the list, isUrlRoutable answers routable for the domain names among
\* them, and a later addHostname of an evicted hostname appends it as the
\* newest entry.
C25_Forgotten ==
    /\ \A i \in 1 .. (evicted' - evicted) :
          ~Includes(nonRoutableList', nonRoutableList[i])
    /\ \A h \in Hosts :
          (\E i \in 1 .. (evicted' - evicted) : nonRoutableList[i] = h)
          => isUrlRoutable(UrlOf(h))' = Returns(TRUE)

C25_AddedAgain ==
    \A h \in Hosts :
        /\ evicted > 0
        /\ Commits(h) = 1 \/ budget'.adds # budget.adds
        /\ isUrlRoutable(UrlOf(h)) = Returns(TRUE)
        /\ addHostname(h)
        => /\ nonRoutableList'[Len(nonRoutableList')] = h
           /\ Len(nonRoutableList') = Len(nonRoutableList) + 1

C25_EvictionForgets == [][C25_Forgotten /\ C25_AddedAgain]_vars

C25_Witness ==
    /\ evicted = CLEAR_CAPACITY
    /\ nonRoutableList[Len(nonRoutableList)] = 1
    /\ Len(nonRoutableList) = NON_ROUTABLE_MAX_LENGTH + 2 - CLEAR_CAPACITY

\* C26 (popup initialisation status): a call of getPopupData sets initStatus
\* to Pending, and whenever a call has finished, by returning or by a failure
\* of a call it awaited, initStatus is Done or Error.
PopupFinished == popup.pc \in {"returned", "threw"}

C26_StartsPending ==
    popup'.calls # popup.calls => initStatus' = "Pending"

C26_FinishedNotPending ==
    PopupFinished => initStatus \in {"Done", "Error"}

C26_InitStatus == []C26_FinishedNotPending /\ [][C26_StartsPending]_vars

TypeOK ==
    /\ phase \in {"constructed", "loading", "ready", "failed"}
    /\ now >= TimeOrigin
    /\ budget.drain \/ now <= TimeOrigin + MaxElapsed
    /\ DOMAIN webRequestErrorHostnames \subseteq EventHosts
    /\ DOMAIN nonRoutableHostnames \subseteq EventHosts
    /\ Len(inflight) <= MaxInflight
    /\ initStatus \in {"Pending", "Done", "Error"}
    /\ popup.pc \in {"idle", "getCurrent", "getPopupData", "awaiting",
                     "returned", "threw"}
    /\ popup.calls <= MaxPopupCalls
====
